---------------------------- MODULE Spec2Model ----------------------------
(***************************************************************************)
(* A model of cryptography.fernet (src/cryptography/fernet.py): the Fernet *)
(* key material, encrypt / _encrypt_from_parts and decrypt, executed line  *)
(* by line by concurrent calls.                                            *)
(*                                                                         *)
(* Byte strings are sequences over 0..255 and keep the sizes of the code   *)
(* (32-byte key, 16-byte iv and block, 8-byte timestamp, 32-byte tag).     *)
(* base64 is modelled by the algorithm of the standard library's codec.    *)
(* The primitives of cryptography.hazmat (HMAC, AES-CBC, PKCS7) are not    *)
(* part of src/: HMAC and the block cipher are small keyed stand-ins with  *)
(* the interface the specification gives them, PKCS7 is the padding rule.  *)
(***************************************************************************)
EXTENDS Integers, Sequences, FiniteSets, TLC

(* ------------------------------ byte strings --------------------------- *)

Byte == 0..255

\* b[lo:hi] of Python for 0 <= lo, and hi >= 0 or hi < 0 (counted from the end);
\* indices are clamped to the string like Python's slices.
PySlice(s, lo, hi) ==
    LET n == Len(s)
        h == IF hi < 0 THEN (IF n + hi < 0 THEN 0 ELSE n + hi)
                       ELSE (IF hi > n THEN n ELSE hi)
        l == IF lo > n THEN n ELSE lo
    IN  IF h <= l THEN <<>> ELSE [i \in 1..(h - l) |-> s[l + i]]

\* b[-k:] of Python, k > 0.
PyTail(s, k) ==
    LET n == Len(s)
        l == IF n - k < 0 THEN 0 ELSE n - k
    IN  [i \in 1..(n - l) |-> s[l + i]]

RECURSIVE Xor(_, _)
\* bitwise exclusive or of two naturals
Xor(a, b) ==
    IF a = 0 THEN b
    ELSE IF b = 0 THEN a
    ELSE (((a % 2) + (b % 2)) % 2) + 2 * Xor(a \div 2, b \div 2)

RECURSIVE Pow2(_)
Pow2(n) == IF n = 0 THEN 1 ELSE 2 * Pow2(n - 1)

(* ------------------------------ base64 --------------------------------- *)

PadChar == 61

\* the url-safe alphabet: A-Z a-z 0-9 - _
B64Char(v) ==
    IF v < 26 THEN 65 + v
    ELSE IF v < 52 THEN 97 + (v - 26)
    ELSE IF v < 62 THEN 48 + (v - 52)
    ELSE IF v = 62 THEN 45
    ELSE 95

\* the decoder's table after urlsafe_b64decode's translation of - and _ to
\* + and /: both spellings are accepted; 64 stands for "not in the alphabet".
B64Val(c) ==
    IF c >= 65 /\ c <= 90 THEN c - 65
    ELSE IF c >= 97 /\ c <= 122 THEN c - 97 + 26
    ELSE IF c >= 48 /\ c <= 57 THEN c - 48 + 52
    ELSE IF c = 45 \/ c = 43 THEN 62
    ELSE IF c = 95 \/ c = 47 THEN 63
    ELSE 64

\* base64.urlsafe_b64encode: every 3 bytes give 4 characters, the last group
\* is padded with = to 4 characters
urlsafe_b64encode(s) ==
    LET n == Len(s)
        at(i) == IF i <= n THEN s[i] ELSE 0
        char(k) ==
            LET g == 3 * ((k - 1) \div 4)
                r == (k - 1) % 4
            IN  IF r = 0 THEN B64Char(at(g + 1) \div 4)
                ELSE IF r = 1
                THEN B64Char((at(g + 1) % 4) * 16 + (at(g + 2) \div 16))
                ELSE IF r = 2
                THEN (IF g + 2 > n THEN PadChar
                      ELSE B64Char((at(g + 2) % 16) * 4 + (at(g + 3) \div 64)))
                ELSE (IF g + 3 > n THEN PadChar ELSE B64Char(at(g + 3) % 64))
    IN  [k \in 1..(4 * ((n + 2) \div 3)) |-> char(k)]

\* a character the decoder takes as data
IsData(c) == c # PadChar /\ B64Val(c) < 64

\* binascii.a2b_base64 (not strict), as base64.urlsafe_b64decode calls it:
\* characters outside the alphabet are skipped; a pad ends the input when it
\* completes a quad (the third data character of a quad was read, or the
\* second and another pad since); the bits of the last character that fill
\* no byte are dropped; input that ends inside a quad is an error.
\* [ok, data]; ok = FALSE stands for binascii.Error.
urlsafe_b64decode(s) ==
    LET n == Len(s)
        pads == {i \in 1..n : s[i] = PadChar}
        \* the data characters read before position i
        before(i) == Len(SelectSeq(SubSeq(s, 1, i - 1), IsData))
        quad_pos(i) == before(i) % 4
        ends(i) ==
            \/ quad_pos(i) = 3
            \/ /\ quad_pos(i) = 2
               /\ \E j \in pads : j < i /\ before(j) = before(i)
        stops == {i \in pads : ends(i)}
        stop == IF stops = {} THEN n + 1
                ELSE CHOOSE i \in stops : \A j \in stops : i <= j
        v == SelectSeq(SubSeq(s, 1, stop - 1), IsData)
        m == Len(v)
        val(i) == B64Val(v[i])
        nbytes == 3 * (m \div 4)
                    + (IF m % 4 = 0 THEN 0 ELSE (m % 4) - 1)
        byte(k) ==
            LET g == 4 * ((k - 1) \div 3)
                r == (k - 1) % 3
            IN  IF r = 0 THEN val(g + 1) * 4 + (val(g + 2) \div 16)
                ELSE IF r = 1 THEN (val(g + 2) % 16) * 16 + (val(g + 3) \div 4)
                ELSE (val(g + 3) % 4) * 64 + val(g + 4)
    IN  [ok |-> stops # {} \/ m % 4 = 0,
         data |-> [k \in 1..nbytes |-> byte(k)]]

(* ------------------------------ constants ------------------------------ *)

KeyLen == 32
HalfLen == 16
IvLen == 16
BlockSize == 16
TagLen == 32
VersionByte == 128
MAX_CLOCK_SKEW == 60

(* ------------------------------ struct --------------------------------- *)

\* Python integers have no width: the timestamp of a token is any value below
\* 2^64 and timestamp + ttl may lie above. A non-negative integer that may
\* exceed a machine word is held exactly, as its base-256 digits, most
\* significant first, without leading zeros (<< >> is 0, << 3, 232 >> is 1000).
Norm(d) ==
    LET nz == {i \in 1..Len(d) : d[i] # 0} IN
    IF nz = {} THEN << >>
    ELSE SubSeq(d, CHOOSE i \in nz : \A k \in nz : i <= k, Len(d))

\* the digits of a clock reading or TTL n, 0 <= n < 2^31
Num(n) ==
    Norm(<< (n \div 16777216) % 256, (n \div 65536) % 256,
            (n \div 256) % 256, n % 256 >>)

\* the i-th digit of a from the least significant end
Digit(a, i) == IF i <= Len(a) THEN a[Len(a) + 1 - i] ELSE 0

RECURSIVE Carry(_, _, _)
Carry(a, b, i) ==
    IF i = 0 THEN 0
    ELSE (Digit(a, i) + Digit(b, i) + Carry(a, b, i - 1)) \div 256

\* a + b
Plus(a, b) ==
    LET n == (IF Len(a) > Len(b) THEN Len(a) ELSE Len(b)) + 1 IN
    Norm([j \in 1..n |->
            (Digit(a, n + 1 - j) + Digit(b, n + 1 - j)
                + Carry(a, b, n - j)) % 256])

\* a < b
Lt(a, b) ==
    IF Len(a) # Len(b) THEN Len(a) < Len(b)
    ELSE \E i \in 1..Len(a) :
             /\ a[i] < b[i]
             /\ \A j \in 1..(i - 1) : a[j] = b[j]

\* a + k < b for an integer k of either sign
LtSum(a, k, b) ==
    IF k >= 0 THEN Lt(Plus(a, Num(k)), b) ELSE Lt(a, Plus(b, Num(0 - k)))

\* struct.pack(">Q", t): the 8 bytes of t, most significant first; a clock
\* reading t lies in 0 <= t < 2^31, so the first four bytes are 0
pack_Q(t) ==
    [i \in 1..8 |-> IF i <= 4 THEN 0
                    ELSE IF i = 5 THEN (t \div 16777216) % 256
                    ELSE IF i = 6 THEN (t \div 65536) % 256
                    ELSE IF i = 7 THEN (t \div 256) % 256
                    ELSE t % 256]

\* struct.unpack(">Q", b) for Len(b) = 8: the exact 64-bit value
unpack_Q(b) == Norm(b)

(* ------------------------------ primitives ----------------------------- *)

\* padding.PKCS7(128).padder(): n = BlockSize - len % BlockSize bytes of value n
PKCS7_pad(data) ==
    LET n == BlockSize - (Len(data) % BlockSize)
    IN  data \o [i \in 1..n |-> n]

\* padding.PKCS7(128).unpadder(): [ok, data]; ok = FALSE stands for ValueError
PKCS7_unpad(padded) ==
    LET len == Len(padded)
        n == IF len = 0 THEN 0 ELSE padded[len]
    IN  IF len = 0 \/ len % BlockSize # 0 \/ n < 1 \/ n > BlockSize
        THEN [ok |-> FALSE, data |-> <<>>]
        ELSE IF \E i \in (len - n + 1)..len : padded[i] # n
        THEN [ok |-> FALSE, data |-> <<>>]
        ELSE [ok |-> TRUE, data |-> SubSeq(padded, 1, len - n)]

\* the block cipher stand-in: a keyed byte-wise permutation of one block
BlockEncrypt(key, block) == [j \in 1..BlockSize |-> (block[j] + key[j]) % 256]
BlockDecrypt(key, block) == [j \in 1..BlockSize |-> (block[j] + 256 - key[j]) % 256]

XorBlock(a, b) == [j \in 1..BlockSize |-> Xor(a[j], b[j])]

RECURSIVE CBC_encrypt_from(_, _, _, _)
CBC_encrypt_from(key, prev, padded, i) ==
    IF i > Len(padded) THEN <<>>
    ELSE LET c == BlockEncrypt(key, XorBlock(SubSeq(padded, i, i + BlockSize - 1), prev))
         IN  c \o CBC_encrypt_from(key, c, padded, i + BlockSize)

\* Cipher(AES(key), CBC(iv)).encryptor(): update + finalize of whole blocks
CBC_encrypt(key, iv, padded) == CBC_encrypt_from(key, iv, padded, 1)

RECURSIVE CBC_decrypt_from(_, _, _, _)
CBC_decrypt_from(key, prev, ct, i) ==
    IF i > Len(ct) THEN <<>>
    ELSE LET c == SubSeq(ct, i, i + BlockSize - 1)
         IN  XorBlock(BlockDecrypt(key, c), prev)
                 \o CBC_decrypt_from(key, c, ct, i + BlockSize)

\* Cipher(AES(key), CBC(iv)).decryptor(): data is what update(ct) returns,
\* the whole blocks of ct decrypted; ok is FALSE when finalize() raises
\* ValueError, the input not being a whole number of blocks (an iv that is
\* not one block wide is refused with no block decrypted)
CBC_decrypt(key, iv, ct) ==
    IF Len(iv) # BlockSize THEN [ok |-> FALSE, data |-> <<>>]
    ELSE LET whole == SubSeq(ct, 1, (Len(ct) \div BlockSize) * BlockSize)
         IN  [ok |-> Len(ct) % BlockSize = 0,
              data |-> CBC_decrypt_from(key, iv, whole, 1)]

RECURSIVE HMAC_lane(_, _, _)
HMAC_lane(msg, i, acc) ==
    IF i > Len(msg) THEN acc
    ELSE HMAC_lane(msg, i + TagLen, (acc * 3 + msg[i] + 1) % 256)

\* the keyed-hash stand-in: TagLen lanes, lane j keyed by a key byte and fed
\* the message bytes j, j + TagLen, ...; the length is mixed into every lane
HMAC(key, msg) ==
    [j \in 1..TagLen |->
        (HMAC_lane(msg, j, key[((j - 1) % Len(key)) + 1]) + Len(msg)) % 256]


(* ------------------------------ state ---------------------------------- *)

VARIABLES
    clock,      \* time.time() of the host, in whole seconds
    fernet,     \* the Fernet objects: construction state and the two sub-keys
    calls,      \* the local variables and position of every call in progress
    wire        \* the token in transport between an encrypt and a decrypt

vars == << clock, fernet, calls, wire >>

NoBytes == << >>

\* a value of either kind: bytes, or text (six.text_type)
Bytes(v) == [kind |-> "bytes", val |-> v]
Text(v) == [kind |-> "text", val |-> v]

NoResult == [kind |-> "none", val |-> NoBytes]
Returned(v) == [kind |-> "value", val |-> v]
Raised(e) == [kind |-> e, val |-> NoBytes]

\* how the token on the wire came about (history, no program state)
NoSource ==
    [origin |-> "none", api |-> "none", plain |-> NoBytes, key |-> NoBytes,
     ts |-> 0, orig |-> NoBytes, pos |-> 0, bit |-> 0]

NoWire == [token |-> NoBytes, src |-> NoSource]

\* a Fernet object before __init__ has run
NewObject ==
    [state |-> "new", error |-> "none", key |-> NoBytes,
     signing_key |-> NoBytes, encryption_key |-> NoBytes]

\* the frame of a call: its arguments, its locals, where it stands, its result
IdleCall ==
    [op |-> "idle", pc |-> "idle", obj |-> 0, arg |-> Bytes(NoBytes),
     has_ttl |-> FALSE, ttl |-> 0, current_time |-> 0, iv |-> NoBytes,
     data |-> NoBytes, timestamp |-> Num(0), padded |-> NoBytes,
     ciphertext |-> NoBytes, basic_parts |-> NoBytes,
     result |-> NoResult, trace |-> << >>, src |-> NoSource]

Raise(l, e, step) ==
    [l EXCEPT !.pc = "done", !.result = Raised(e), !.trace = Append(@, step)]

Goto(l, next, step) == [l EXCEPT !.pc = next, !.trace = Append(@, step)]

(* ------------------------------ Fernet.__init__ ------------------------ *)

\* __init__ without the length check of lines 42-45 (mutant)
Fernet_init_unchecked(key) ==
    LET dec == urlsafe_b64decode(key) IN
    IF ~dec.ok
    THEN [NewObject EXCEPT !.state = "failed", !.error = "binascii.Error", !.key = key]
    ELSE [state |-> "ready", error |-> "none", key |-> key,
          signing_key |-> PySlice(dec.data, 0, HalfLen),
          encryption_key |-> PySlice(dec.data, HalfLen, KeyLen)]

\* __init__ taking both sub-keys from key[16:] (mutant)
Fernet_init_same_half(key) ==
    LET dec == urlsafe_b64decode(key) IN
    IF ~dec.ok
    THEN [NewObject EXCEPT !.state = "failed", !.error = "binascii.Error", !.key = key]
    ELSE IF Len(dec.data) # KeyLen
    THEN [NewObject EXCEPT !.state = "failed", !.error = "ValueError", !.key = key]
    ELSE [state |-> "ready", error |-> "none", key |-> key,
          signing_key |-> PySlice(dec.data, HalfLen, KeyLen),
          encryption_key |-> PySlice(dec.data, HalfLen, KeyLen)]

\* __init__(key): the object it leaves behind
Fernet_init(key) ==
    LET dec == urlsafe_b64decode(key) IN
    IF ~dec.ok
    THEN [NewObject EXCEPT !.state = "failed", !.error = "binascii.Error", !.key = key]
    ELSE IF Len(dec.data) # KeyLen
    THEN [NewObject EXCEPT !.state = "failed", !.error = "ValueError", !.key = key]
    ELSE [state |-> "ready", error |-> "none", key |-> key,
          signing_key |-> PySlice(dec.data, 0, HalfLen),
          encryption_key |-> PySlice(dec.data, HalfLen, KeyLen)]

(* ------------------------------ encrypt -------------------------------- *)

\* encrypt, line 56: current_time = int(time.time())
encrypt_read_clock(l, clk) ==
    [Goto(l, "e_iv", "e_clock") EXCEPT !.current_time = clk]

\* encrypt, line 57: iv = os.urandom(16)
encrypt_draw_iv(l, iv) ==
    [Goto(l, "e_type", "e_iv") EXCEPT !.iv = iv]

\* _encrypt_from_parts, lines 61-64
encrypt_type_check(l) ==
    IF l.arg.kind = "text" THEN Raise(l, "TypeError", "e_type")
    ELSE Goto(l, "e_pad", "e_type")

\* lines 66-67
encrypt_pad(l) ==
    [Goto(l, "e_cipher", "e_pad") EXCEPT !.padded = PKCS7_pad(l.arg.val)]

\* lines 68-71
encrypt_cipher(self, l) ==
    [Goto(l, "e_parts", "e_cipher") EXCEPT
        !.ciphertext = CBC_encrypt(self.encryption_key, l.iv, l.padded)]

\* lines 73-75
encrypt_basic_parts(l) ==
    [Goto(l, "e_hmac", "e_parts") EXCEPT
        !.basic_parts = << VersionByte >> \o pack_Q(l.current_time)
                            \o l.iv \o l.ciphertext]

\* lines 77-80
encrypt_hmac(self, l) ==
    [Goto(l, "done", "e_hmac") EXCEPT
        !.result = Returned(urlsafe_b64encode(
                       l.basic_parts \o HMAC(self.signing_key, l.basic_parts)))]

(* ------------------------------ decrypt -------------------------------- *)

\* decrypt without the check of lines 83-86 (mutant)
decrypt_type_check_missing(l) == Goto(l, "d_clock", "d_type")

\* lines 83-86
decrypt_type_check(l) ==
    IF l.arg.kind = "text" THEN Raise(l, "TypeError", "d_type")
    ELSE Goto(l, "d_clock", "d_type")

\* line 88
decrypt_read_clock(l, clk) ==
    [Goto(l, "d_b64", "d_clock") EXCEPT !.current_time = clk]

\* lines 90-93
decrypt_b64decode(l) ==
    LET dec == urlsafe_b64decode(l.arg.val) IN
    IF ~dec.ok THEN Raise(l, "InvalidToken", "d_b64")
    ELSE [Goto(l, "d_version", "d_b64") EXCEPT !.data = dec.data]

\* lines 95-96: six.indexbytes(data, 0) is data[0]
decrypt_version(l) ==
    IF Len(l.data) = 0 THEN Raise(l, "IndexError", "d_version")
    ELSE IF l.data[1] # VersionByte THEN Raise(l, "InvalidToken", "d_version")
    ELSE Goto(l, "d_timestamp", "d_version")

\* lines 98-101: struct.unpack raises struct.error unless data[1:9] has 8 bytes
decrypt_timestamp(l) ==
    LET field == PySlice(l.data, 1, 9) IN
    IF Len(field) # 8 THEN Raise(l, "InvalidToken", "d_timestamp")
    ELSE [Goto(l, "d_ttl", "d_timestamp") EXCEPT !.timestamp = unpack_Q(field)]

\* the TTL check with <= for < (mutant)
decrypt_ttl_inclusive(l) ==
    IF l.has_ttl /\ ~LtSum(Num(l.current_time), 0 - l.ttl, l.timestamp)
    THEN Raise(l, "InvalidToken", "d_ttl")
    ELSE Goto(l, "d_skew", "d_ttl")

\* lines 102-104
decrypt_ttl(l) ==
    IF l.has_ttl /\ LtSum(l.timestamp, l.ttl, Num(l.current_time))
    THEN Raise(l, "InvalidToken", "d_ttl")
    ELSE Goto(l, "d_skew", "d_ttl")

\* the skew check with <= for < (mutant)
decrypt_skew_inclusive(l) ==
    IF ~Lt(l.timestamp, Num(l.current_time + MAX_CLOCK_SKEW))
    THEN Raise(l, "InvalidToken", "d_skew")
    ELSE Goto(l, "d_hmac", "d_skew")

\* lines 105-106
decrypt_skew(l) ==
    IF Lt(Num(l.current_time + MAX_CLOCK_SKEW), l.timestamp)
    THEN Raise(l, "InvalidToken", "d_skew")
    ELSE Goto(l, "d_hmac", "d_skew")

\* a verify that looks at the length of the tag alone (mutant)
hmac_verify_length_only(signing_key, data) == Len(PyTail(data, TagLen)) = TagLen

\* a verify that compares the first half of the tag (mutant)
hmac_verify_half_tag(signing_key, data) ==
    /\ Len(data) >= TagLen
    /\ SubSeq(HMAC(signing_key, PySlice(data, 0, 0 - TagLen)), 1, HalfLen)
           = SubSeq(PyTail(data, TagLen), 1, HalfLen)

\* lines 107-110: h.update(data[:-32]); h.verify(data[-32:])
hmac_verify(signing_key, data) ==
    HMAC(signing_key, PySlice(data, 0, 0 - TagLen)) = PyTail(data, TagLen)

\* lines 107-112
decrypt_hmac(self, l) ==
    IF hmac_verify(self.signing_key, l.data)
    THEN Goto(l, "d_cipher", "d_hmac_ok")
    ELSE Raise(l, "InvalidToken", "d_hmac_bad")

\* the cipher run on data[25:], the tag not cut off (mutant)
decrypt_cipher_keeps_tag(self, l) ==
    LET iv == PySlice(l.data, 9, 25)
        ciphertext == PySlice(l.data, 25, Len(l.data))
        dec == CBC_decrypt(self.encryption_key, iv, ciphertext)
    IN  IF ~dec.ok
        THEN [Raise(l, "InvalidToken", "d_cipher") EXCEPT
                 !.iv = iv, !.ciphertext = ciphertext, !.padded = dec.data]
        ELSE [Goto(l, "d_unpad", "d_cipher") EXCEPT
                 !.iv = iv, !.ciphertext = ciphertext, !.padded = dec.data]

\* lines 114-123: update (line 119) has set plaintext_padded before finalize
\* raises
decrypt_cipher(self, l) ==
    LET iv == PySlice(l.data, 9, 25)
        ciphertext == PySlice(l.data, 25, 0 - TagLen)
        dec == CBC_decrypt(self.encryption_key, iv, ciphertext)
    IN  IF ~dec.ok
        THEN [Raise(l, "InvalidToken", "d_cipher") EXCEPT
                 !.iv = iv, !.ciphertext = ciphertext, !.padded = dec.data]
        ELSE [Goto(l, "d_unpad", "d_cipher") EXCEPT
                 !.iv = iv, !.ciphertext = ciphertext, !.padded = dec.data]

\* lines 124-131
decrypt_unpad(l) ==
    LET un == PKCS7_unpad(l.padded) IN
    IF ~un.ok THEN Raise(l, "InvalidToken", "d_unpad")
    ELSE [Goto(l, "done", "d_unpad") EXCEPT !.result = Returned(un.data)]


\* a step that keeps the iv of the call in self, in place of the cipher key
\* (mutant)
self_after_step_keeps_iv(self, l) ==
    IF l.iv = NoBytes THEN self ELSE [self EXCEPT !.encryption_key = l.iv]

\* what a step of encrypt or decrypt (lines 55-131) leaves in the attributes
\* of self: no line of either assigns one
self_after_step(self, l) == self

(* ------------------------------ a whole call --------------------------- *)

\* the step a frame is about to take, with the clock reading and iv it uses
StepOf(self, l) ==
    CASE l.pc = "e_type" -> encrypt_type_check(l)
      [] l.pc = "e_pad" -> encrypt_pad(l)
      [] l.pc = "e_cipher" -> encrypt_cipher(self, l)
      [] l.pc = "e_parts" -> encrypt_basic_parts(l)
      [] l.pc = "e_hmac" -> encrypt_hmac(self, l)
      [] l.pc = "d_type" -> decrypt_type_check(l)
      [] l.pc = "d_clock" -> decrypt_read_clock(l, l.current_time)
      [] l.pc = "d_b64" -> decrypt_b64decode(l)
      [] l.pc = "d_version" -> decrypt_version(l)
      [] l.pc = "d_timestamp" -> decrypt_timestamp(l)
      [] l.pc = "d_ttl" -> decrypt_ttl(l)
      [] l.pc = "d_skew" -> decrypt_skew(l)
      [] l.pc = "d_hmac" -> decrypt_hmac(self, l)
      [] l.pc = "d_cipher" -> decrypt_cipher(self, l)
      [] l.pc = "d_unpad" -> decrypt_unpad(l)
      [] OTHER -> l

RECURSIVE RunToEnd(_, _)
RunToEnd(self, l) == IF l.pc = "done" THEN l ELSE RunToEnd(self, StepOf(self, l))

\* _encrypt_from_parts(data, current_time, iv) run on its own: its outcome
encrypt_from_parts(self, data, current_time, iv) ==
    RunToEnd(self, [IdleCall EXCEPT !.op = "encrypt", !.pc = "e_type",
                       !.arg = data, !.current_time = current_time,
                       !.iv = iv]).result

\* decrypt(token, ttl) run on its own at clock reading now: its outcome
decrypt(self, token, has_ttl, ttl, now) ==
    RunToEnd(self, [IdleCall EXCEPT !.op = "decrypt", !.pc = "d_type",
                       !.arg = token, !.has_ttl = has_ttl, !.ttl = ttl,
                       !.current_time = now]).result

(* ------------------------------ actions -------------------------------- *)

Frame(c) == calls[c]
Self(c) == fernet[calls[c].obj]

\* one step of call c: the frame moves on, self is left as the step leaves it
Step(c, l) ==
    /\ calls' = [calls EXCEPT ![c] = l]
    /\ fernet' = [fernet EXCEPT ![calls[c].obj] = self_after_step(@, l)]
    /\ UNCHANGED << clock, wire >>

\* f = Fernet(key)
Construct(o, key) ==
    /\ fernet[o].state = "new"
    /\ fernet' = [fernet EXCEPT ![o] = Fernet_init(key)]
    /\ UNCHANGED << clock, calls, wire >>

\* a second passes on the host
Tick(limit) ==
    /\ clock < limit
    /\ clock' = clock + 1
    /\ UNCHANGED << fernet, calls, wire >>

\* f.encrypt(data)
StartEncrypt(c, o, data) ==
    /\ calls[c].op = "idle"
    /\ fernet[o].state = "ready"
    /\ wire.src.origin = "none"
    /\ calls' = [calls EXCEPT ![c] =
           [IdleCall EXCEPT !.op = "encrypt", !.pc = "e_clock", !.obj = o,
                            !.arg = data]]
    /\ UNCHANGED << clock, fernet, wire >>

\* f._encrypt_from_parts(data, current_time, iv)
StartEncryptFromParts(c, o, data, current_time, iv) ==
    /\ calls[c].op = "idle"
    /\ fernet[o].state = "ready"
    /\ wire.src.origin = "none"
    /\ calls' = [calls EXCEPT ![c] =
           [IdleCall EXCEPT !.op = "encrypt", !.pc = "e_type", !.obj = o,
                            !.arg = data, !.current_time = current_time,
                            !.iv = iv]]
    /\ UNCHANGED << clock, fernet, wire >>

EncryptReadClock(c) ==
    /\ calls[c].pc = "e_clock"
    /\ Step(c, encrypt_read_clock(Frame(c), clock))

EncryptDrawIv(c, iv) ==
    /\ calls[c].pc = "e_iv"
    /\ Step(c, encrypt_draw_iv(Frame(c), iv))

EncryptTypeCheck(c) ==
    /\ calls[c].pc = "e_type"
    /\ Step(c, encrypt_type_check(Frame(c)))

EncryptPad(c) ==
    /\ calls[c].pc = "e_pad"
    /\ Step(c, encrypt_pad(Frame(c)))

EncryptCipher(c) ==
    /\ calls[c].pc = "e_cipher"
    /\ Step(c, encrypt_cipher(Self(c), Frame(c)))

EncryptBasicParts(c) ==
    /\ calls[c].pc = "e_parts"
    /\ Step(c, encrypt_basic_parts(Frame(c)))

EncryptHmac(c) ==
    /\ calls[c].pc = "e_hmac"
    /\ Step(c, encrypt_hmac(Self(c), Frame(c)))

\* f.decrypt(token, ttl) of the token in transport, handed over as bytes or,
\* by a caller's mistake, as text
StartDecrypt(c, o, kind, has_ttl, ttl) ==
    /\ calls[c].op = "idle"
    /\ fernet[o].state = "ready"
    /\ wire.src.origin # "none"
    /\ calls' = [calls EXCEPT ![c] =
           [IdleCall EXCEPT !.op = "decrypt", !.pc = "d_type", !.obj = o,
                            !.arg = [kind |-> kind, val |-> wire.token],
                            !.has_ttl = has_ttl, !.ttl = ttl,
                            !.src = wire.src]]
    /\ wire' = NoWire
    /\ UNCHANGED << clock, fernet >>

DecryptTypeCheck(c) ==
    /\ calls[c].pc = "d_type"
    /\ Step(c, decrypt_type_check(Frame(c)))

DecryptReadClock(c) ==
    /\ calls[c].pc = "d_clock"
    /\ Step(c, decrypt_read_clock(Frame(c), clock))

DecryptB64decode(c) ==
    /\ calls[c].pc = "d_b64"
    /\ Step(c, decrypt_b64decode(Frame(c)))

DecryptVersion(c) ==
    /\ calls[c].pc = "d_version"
    /\ Step(c, decrypt_version(Frame(c)))

DecryptTimestamp(c) ==
    /\ calls[c].pc = "d_timestamp"
    /\ Step(c, decrypt_timestamp(Frame(c)))

DecryptTtl(c) ==
    /\ calls[c].pc = "d_ttl"
    /\ Step(c, decrypt_ttl(Frame(c)))

DecryptSkew(c) ==
    /\ calls[c].pc = "d_skew"
    /\ Step(c, decrypt_skew(Frame(c)))

DecryptHmac(c) ==
    /\ calls[c].pc = "d_hmac"
    /\ Step(c, decrypt_hmac(Self(c), Frame(c)))

DecryptCipher(c) ==
    /\ calls[c].pc = "d_cipher"
    /\ Step(c, decrypt_cipher(Self(c), Frame(c)))

DecryptUnpad(c) ==
    /\ calls[c].pc = "d_unpad"
    /\ Step(c, decrypt_unpad(Frame(c)))

\* the call returns or raises to its caller; a token returned by encrypt
\* goes into transport
Return(c) ==
    /\ calls[c].pc = "done"
    /\ calls' = [calls EXCEPT ![c] = IdleCall]
    /\ wire' = IF calls[c].op = "encrypt" /\ calls[c].result.kind = "value"
               THEN [token |-> calls[c].result.val,
                     src |-> [NoSource EXCEPT
                                 !.origin = "encrypt",
                                 !.api = IF calls[c].trace[1] = "e_clock"
                                         THEN "encrypt"
                                         ELSE "_encrypt_from_parts",
                                 !.plain = calls[c].arg.val,
                                 !.key = fernet[calls[c].obj].key,
                                 !.ts = calls[c].current_time,
                                 !.orig = calls[c].result.val]]
               ELSE wire
    /\ UNCHANGED << clock, fernet >>

FlipBit(byte, bit) ==
    IF (byte \div Pow2(bit)) % 2 = 1 THEN byte - Pow2(bit) ELSE byte + Pow2(bit)

\* one bit of the token in transport is flipped
Tamper(pos, bit) ==
    /\ wire.src.origin = "encrypt"
    /\ pos \in 1..Len(wire.token)
    /\ wire' = [token |-> [wire.token EXCEPT ![pos] = FlipBit(@, bit)],
                src |-> [wire.src EXCEPT !.origin = "flipped", !.pos = pos,
                                         !.bit = bit]]
    /\ UNCHANGED << clock, fernet, calls >>

\* the token in transport is replaced by one that encrypt did not return
Forge(token) ==
    /\ wire.src.origin = "encrypt"
    /\ wire' = [token |-> token,
                src |-> [NoSource EXCEPT !.origin = "forged", !.orig = token]]
    /\ UNCHANGED << clock, fernet, calls >>


(* ------------------------------ inputs --------------------------------- *)

MaxPlainLen == 17
NumIvs == 2
MaxTicks == 1
NumCalls == 2
Now0 == 1700000000

\* plaintexts: empty, one byte short of a block, a block, and the longest
Plain(n) == [i \in 1..n |-> (i * 7 + 100) % 256]
PlainLens == {0, BlockSize - 1, BlockSize, MaxPlainLen}
Plains == {Plain(n) : n \in PlainLens}

\* what os.urandom(16) may return
Iv(f) == [i \in 1..IvLen |-> (f * 31 + i) % 256]
Ivs == {Iv(f) : f \in 1..NumIvs}

\* timestamps of tokens made with an injected time: 100 s old, and 59, 60
\* and 61 s ahead of the first clock reading
TokenTimes == {Now0 - 100, Now0 + 59, Now0 + 60, Now0 + 61}
TTLs == {50, 100, 200}

KeyBytes(a, b) ==
    [i \in 1..KeyLen |-> IF i <= HalfLen THEN (a * 16 + i) % 256
                         ELSE (b * 16 + i) % 256]

\* the key of the sender
KeyA == KeyBytes(1, 2)
\* the same signing half, a cipher half that differs in its first byte
KeyB == [KeyA EXCEPT ![HalfLen + 1] = (@ + 1) % 256]
\* the same signing half, a cipher half that differs in every byte
KeyC == KeyBytes(1, 3)
\* another signing half, the same cipher half
KeyD == KeyBytes(4, 2)
\* another signing half and another cipher half
KeyE == KeyBytes(4, 3)

\* the other base64 text of the same 32 bytes: the last character before the
\* pad carries two bits the decoder drops
Respell(text) == [text EXCEPT ![Len(text) - 1] = B64Char(B64Val(@) + 1)]

TextA == urlsafe_b64encode(KeyA)

\* keys that are no keys: 31 and 33 bytes, no bytes, and no base64
BadKeys ==
    { urlsafe_b64encode(SubSeq(KeyA, 1, KeyLen - 1)),
      urlsafe_b64encode(KeyA \o << 7 >>),
      NoBytes,
      << 65 >> }

MainKeys == {TextA} \cup BadKeys

CrossKeys ==
    { TextA, Respell(TextA), urlsafe_b64encode(KeyB), urlsafe_b64encode(KeyC),
      urlsafe_b64encode(KeyD), urlsafe_b64encode(KeyE) }

\* a token with a valid tag under signing key sk around the given fields
Signed(sk, parts) == urlsafe_b64encode(parts \o HMAC(sk, parts))

Zeros(n) == [i \in 1..n |-> 0]

\* tokens encrypt never returns
ForgedTokens ==
    LET sk == SubSeq(KeyA, 1, HalfLen)
        ek == SubSeq(KeyA, HalfLen + 1, KeyLen)
        head == << VersionByte >> \o pack_Q(Now0) \o Iv(1)
        ok == CBC_encrypt(ek, Iv(1), PKCS7_pad(Plain(3)))
    IN  { NoBytes,                                         \* the empty token
          << 33, 33, 33 >>,                                \* no base64 character
          << 65 >>,                                        \* malformed base64
          Signed(sk, << 129 >> \o pack_Q(Now0) \o Iv(1) \o ok),   \* version
          urlsafe_b64encode(<< VersionByte >>),            \* no timestamp
          urlsafe_b64encode(<< VersionByte, 0, 0, 0 >>),   \* short timestamp
          urlsafe_b64encode(<< VersionByte >> \o pack_Q(Now0)),   \* no tag
          urlsafe_b64encode(head \o ok \o Zeros(TagLen)),  \* wrong tag
          Signed(sk, << VersionByte, 1 >> \o Zeros(7) \o Iv(1) \o ok), \* year 2^56
          Signed(sk, head \o SubSeq(ok, 1, 8)),            \* half a block
          Signed(sk, head \o ok \o SubSeq(ok, 1, 8)),      \* a block and a half
          Signed(sk, head \o CBC_encrypt(ek, Iv(1), Zeros(BlockSize))), \* padding
          Signed(sk, head) }                               \* no ciphertext

(* ------------------------------ specifications ------------------------- *)

EncryptSteps(c) ==
    \/ EncryptTypeCheck(c)
    \/ EncryptPad(c)
    \/ EncryptCipher(c)
    \/ EncryptBasicParts(c)
    \/ EncryptHmac(c)

DecryptSteps(c) ==
    \/ DecryptTypeCheck(c)
    \/ DecryptReadClock(c)
    \/ DecryptB64decode(c)
    \/ DecryptVersion(c)
    \/ DecryptTimestamp(c)
    \/ DecryptTtl(c)
    \/ DecryptSkew(c)
    \/ DecryptHmac(c)
    \/ DecryptCipher(c)
    \/ DecryptUnpad(c)

InitWith(objs, slots) ==
    /\ clock = Now0
    /\ fernet = [o \in objs |-> NewObject]
    /\ calls = [c \in slots |-> IdleCall]
    /\ wire = NoWire

\* One object, one call at a time: every key, every plaintext, tokens of every
\* age, forged tokens, text arguments, a clock that moves during a call.
Init == InitWith({1}, {1})

Next ==
    \/ \E k \in MainKeys : Construct(1, k)
    \/ Tick(Now0 + MaxTicks)
    \/ \E p \in Plains : StartEncrypt(1, 1, Bytes(p))
    \/ StartEncrypt(1, 1, Text(Plain(3)))
    \/ \E t \in TokenTimes : StartEncryptFromParts(1, 1, Bytes(Plain(3)), t, Iv(1))
    \/ EncryptReadClock(1)
    \/ \E iv \in Ivs : EncryptDrawIv(1, iv)
    \/ EncryptSteps(1)
    \/ \E f \in ForgedTokens : Forge(f)
    \/ StartDecrypt(1, 1, "bytes", FALSE, 0)
    \/ \E ttl \in TTLs : StartDecrypt(1, 1, "bytes", TRUE, ttl)
    \/ StartDecrypt(1, 1, "text", FALSE, 0)
    \/ DecryptSteps(1)
    \/ Return(1)

Spec == Init /\ [][Next]_vars


\* Tampering: tokens of one, two and three cipher blocks (two, one and no pad
\* character in their text), every single bit of each flipped in transport.
TamperPlains == {Plain(0), Plain(BlockSize), Plain(2 * BlockSize)}

NextTamper ==
    \/ Construct(1, TextA)
    \/ \E p \in TamperPlains : StartEncryptFromParts(1, 1, Bytes(p), Now0, Iv(1))
    \/ EncryptSteps(1)
    \/ \E pos \in 1..Len(wire.token), bit \in 0..7 : Tamper(pos, bit)
    \/ StartDecrypt(1, 1, "bytes", FALSE, 0)
    \/ DecryptSteps(1)
    \/ Return(1)

SpecTamper == Init /\ [][NextTamper]_vars

\* Two keys: a token made under the key of one object is decrypted under the
\* key of the other.
InitCross == InitWith({1, 2}, {1})

CrossPlains == {Plain(BlockSize - 1), Plain(BlockSize)}

NextCross ==
    \/ \E o \in {1, 2}, k \in CrossKeys : Construct(o, k)
    \/ \E o \in {1, 2}, p \in CrossPlains :
           StartEncryptFromParts(1, o, Bytes(p), Now0, Iv(1))
    \/ EncryptSteps(1)
    \/ \E o \in {1, 2} : StartDecrypt(1, o, "bytes", FALSE, 0)
    \/ DecryptSteps(1)
    \/ Return(1)

SpecCross == InitCross /\ [][NextCross]_vars

\* Concurrency: NumCalls calls on one object, their steps interleaved in
\* every order.
InitConc == InitWith({1}, 1..NumCalls)

ConcPlains == {Plain(BlockSize - 1)}

NextConc ==
    \/ Construct(1, TextA)
    \/ \E c \in 1..NumCalls, p \in ConcPlains : StartEncrypt(c, 1, Bytes(p))
    \/ \E c \in 1..NumCalls : EncryptReadClock(c)
    \/ \E c \in 1..NumCalls : EncryptDrawIv(c, Iv(1))
    \/ \E c \in 1..NumCalls : EncryptSteps(c)
    \/ \E pos \in {Len(wire.token)} : Tamper(pos, 0)
    \/ \E c \in 1..NumCalls : StartDecrypt(c, 1, "bytes", FALSE, 0)
    \/ \E c \in 1..NumCalls : DecryptSteps(c)
    \/ \E c \in 1..NumCalls : Return(c)

SpecConc == InitConc /\ [][NextConc]_vars


(* ------------------------------ claims --------------------------------- *)

\* the calls that have ended and not yet returned to their caller
Done(c) == calls[c].pc = "done"
DoneDecrypt(c) == Done(c) /\ calls[c].op = "decrypt"

\* the 32 bytes a key text stands for
KeyOf(text) == urlsafe_b64decode(text).data

Has(trace, step) == \E i \in DOMAIN trace : trace[i] = step
Before(trace, a, b) ==
    \E i \in DOMAIN trace : \E j \in DOMAIN trace :
        i < j /\ trace[i] = a /\ trace[j] = b

\* decrypt was handed, as bytes, a token that encrypt returned under the
\* key of the decrypting object and that nobody touched
Genuine(c) ==
    /\ calls[c].arg.kind = "bytes"
    /\ calls[c].src.origin = "encrypt"
    /\ calls[c].src.key = fernet[calls[c].obj].key

\* C1: decrypt without a TTL, under key K, of the token that encrypt(P)
\* returned under K, returns exactly P.
C1_RoundTrip ==
    \A c \in DOMAIN calls :
        ( /\ DoneDecrypt(c)
          /\ Genuine(c)
          /\ calls[c].src.api = "encrypt"
          /\ ~calls[c].has_ttl )
        => calls[c].result = Returned(calls[c].src.plain)

\* a plaintext of two cipher blocks made the round trip
C1_Witness ==
    \E c \in DOMAIN calls :
        /\ DoneDecrypt(c)
        /\ Genuine(c)
        /\ calls[c].src.api = "encrypt"
        /\ ~calls[c].has_ttl
        /\ Len(calls[c].src.plain) > BlockSize
        /\ calls[c].result = Returned(calls[c].src.plain)

\* C2: decrypt of a bytes token, whatever the token and the TTL, ends with
\* the plaintext or with InvalidToken and with no other error.
C2_UniformFailure ==
    \A c \in DOMAIN calls :
        (DoneDecrypt(c) /\ calls[c].arg.kind = "bytes")
        => calls[c].result.kind \in {"value", "InvalidToken"}

\* C3: the cipher and the unpadder run only after the tag over data[:-32]
\* was recomputed and found equal to data[-32:] in the same call; a call
\* whose tag did not match ends with InvalidToken and never reaches them.
C3_MacBeforeDecryption ==
    \A c \in DOMAIN calls :
        LET l == calls[c]
            reached == \/ l.pc \in {"d_cipher", "d_unpad"}
                       \/ Has(l.trace, "d_cipher")
                       \/ Has(l.trace, "d_unpad")
                       \/ (DoneDecrypt(c) /\ l.result.kind = "value")
            tag_ok == HMAC(fernet[l.obj].signing_key,
                           PySlice(l.data, 0, 0 - TagLen)) = PyTail(l.data, TagLen)
        IN  l.op = "decrypt" =>
            /\ reached => /\ tag_ok
                          /\ Has(l.trace, "d_hmac_ok")
                          /\ ~Has(l.trace, "d_hmac_bad")
                          /\ ~Before(l.trace, "d_cipher", "d_hmac_ok")
                          /\ ~Before(l.trace, "d_unpad", "d_hmac_ok")
            /\ Has(l.trace, "d_hmac_bad") =>
                          /\ l.pc = "done"
                          /\ l.result = Raised("InvalidToken")
                          /\ ~reached

\* a plaintext was returned, after the tag had matched and the cipher had run
C3_Witness ==
    \E c \in DOMAIN calls :
        /\ DoneDecrypt(c)
        /\ calls[c].result.kind = "value"
        /\ Before(calls[c].trace, "d_hmac_ok", "d_cipher")
        /\ Before(calls[c].trace, "d_cipher", "d_unpad")


\* decrypt was handed, as bytes, a token of encrypt with one bit flipped
Flipped(c) ==
    /\ calls[c].arg.kind = "bytes"
    /\ calls[c].src.origin = "flipped"
    /\ calls[c].src.key = fernet[calls[c].obj].key

\* C4, as claimed: whichever bit of the text of a token is flipped, decrypt
\* under the same key returns no plaintext.
C4_EveryFlipRejected ==
    \A c \in DOMAIN calls :
        (DoneDecrypt(c) /\ Flipped(c)) => calls[c].result.kind # "value"

\* C4, amended: a flipped token is rejected with InvalidToken whenever the
\* flip changes the bytes the text decodes to or leaves it undecodable; a
\* flip that leaves the decoded bytes as they were (it fell on the bits of
\* the last character that the decoder drops) is not noticed, and decrypt
\* returns the plaintext.
C4_FlipRejectedUnlessSameBytes ==
    \A c \in DOMAIN calls :
        (DoneDecrypt(c) /\ Flipped(c)) =>
            LET got == urlsafe_b64decode(calls[c].arg.val)
                sent == urlsafe_b64decode(calls[c].src.orig)
            IN  IF got.ok /\ got.data = sent.data
                THEN calls[c].result = Returned(calls[c].src.plain)
                ELSE calls[c].result = Raised("InvalidToken")

\* a flip inside the tag of a token was caught by the tag comparison
C4_Witness ==
    \E c \in DOMAIN calls :
        /\ DoneDecrypt(c)
        /\ Flipped(c)
        /\ calls[c].src.pos > Len(calls[c].src.orig) - TagLen
        /\ Has(calls[c].trace, "d_hmac_bad")
        /\ calls[c].result = Raised("InvalidToken")

\* decrypt was handed, untouched and as bytes, a token that encrypt returned
\* under the key of another object
Foreign(c) ==
    /\ calls[c].arg.kind = "bytes"
    /\ calls[c].src.origin = "encrypt"

SigningHalf(text) == PySlice(KeyOf(text), 0, HalfLen)

\* C5, as claimed: under any key whose text differs from the text of the key
\* the token was made with, decrypt returns no plaintext.
C5_OtherKeyRejected ==
    \A c \in DOMAIN calls :
        ( /\ DoneDecrypt(c)
          /\ Foreign(c)
          /\ calls[c].src.key # fernet[calls[c].obj].key )
        => calls[c].result.kind # "value"

\* C5, amended: under any key whose signing half (the first 16 decoded
\* bytes) differs from that of the key the token was made with, decrypt ends
\* with InvalidToken, at the tag comparison.
C5_OtherSigningKeyRejected ==
    \A c \in DOMAIN calls :
        ( /\ DoneDecrypt(c)
          /\ Foreign(c)
          /\ SigningHalf(calls[c].src.key) # SigningHalf(fernet[calls[c].obj].key) )
        => /\ calls[c].result = Raised("InvalidToken")
           /\ ~Has(calls[c].trace, "d_cipher")

\* a token was rejected under a key with another signing half and the same
\* cipher half
C5_Witness ==
    \E c \in DOMAIN calls :
        /\ DoneDecrypt(c)
        /\ Foreign(c)
        /\ SigningHalf(calls[c].src.key) # SigningHalf(fernet[calls[c].obj].key)
        /\ PySlice(KeyOf(calls[c].src.key), HalfLen, KeyLen)
               = fernet[calls[c].obj].encryption_key
        /\ calls[c].result = Raised("InvalidToken")

\* the token's timestamp is not more than 60 s ahead of the call's clock reading
NotAhead(c) == calls[c].src.ts <= calls[c].current_time + 60

\* the token is not older than the TTL of the call, if it has one
NotExpired(c) ==
    ~calls[c].has_ttl \/ calls[c].src.ts + calls[c].ttl >= calls[c].current_time

\* C6: a genuine token that is not ahead of the clock is rejected exactly when
\* a TTL was given and timestamp + TTL < now, and is decrypted otherwise: with
\* timestamp + TTL = now, and without a TTL however old it is.
C6_Expiration ==
    \A c \in DOMAIN calls :
        (DoneDecrypt(c) /\ Genuine(c) /\ NotAhead(c)) =>
            IF calls[c].has_ttl
                   /\ calls[c].src.ts + calls[c].ttl < calls[c].current_time
            THEN calls[c].result = Raised("InvalidToken")
            ELSE calls[c].result = Returned(calls[c].src.plain)

\* a token 100 s old was rejected with a TTL of 50
C6_Witness ==
    \E c \in DOMAIN calls :
        /\ DoneDecrypt(c)
        /\ Genuine(c)
        /\ calls[c].src.ts = calls[c].current_time - 100
        /\ calls[c].has_ttl
        /\ calls[c].ttl = 50
        /\ calls[c].result = Raised("InvalidToken")

\* C7: a genuine token that has not expired is rejected exactly when
\* now + 60 < timestamp, with or without a TTL, and is decrypted otherwise;
\* now is the one clock reading of the call, taken before the clock moved on.
C7_FutureSkew ==
    \A c \in DOMAIN calls :
        (DoneDecrypt(c) /\ Genuine(c) /\ NotExpired(c)) =>
            /\ calls[c].current_time <= clock
            /\ IF calls[c].current_time + 60 < calls[c].src.ts
               THEN calls[c].result = Raised("InvalidToken")
               ELSE calls[c].result = Returned(calls[c].src.plain)

\* a token stamped 60 s ahead of the clock reading was decrypted
C7_Witness ==
    \E c \in DOMAIN calls :
        /\ DoneDecrypt(c)
        /\ Genuine(c)
        /\ calls[c].src.ts = calls[c].current_time + 60
        /\ calls[c].result = Returned(calls[c].src.plain)

\* C8: a key whose decoded length is not 32 leaves an object that failed
\* with ValueError and has neither sub-key, and no call ever runs on it; a
\* 32-byte key leaves its first 16 bytes as signing key and its last 16 as
\* cipher key.
C8_KeyValidation ==
    /\ \A o \in DOMAIN fernet :
        LET f == fernet[o]
            dec == urlsafe_b64decode(f.key)
        IN  (f.state # "new" /\ dec.ok) =>
                IF Len(dec.data) = 32
                THEN /\ f.state = "ready"
                     /\ f.signing_key = SubSeq(dec.data, 1, 16)
                     /\ f.encryption_key = SubSeq(dec.data, 17, 32)
                ELSE /\ f.state = "failed"
                     /\ f.error = "ValueError"
                     /\ f.signing_key = NoBytes
                     /\ f.encryption_key = NoBytes
    /\ \A c \in DOMAIN calls :
        calls[c].op # "idle" =>
            /\ fernet[calls[c].obj].state = "ready"
            /\ Len(KeyOf(fernet[calls[c].obj].key)) = 32

\* construction from a key of 31 bytes failed
C8_Witness ==
    \E o \in DOMAIN fernet :
        /\ fernet[o].state = "failed"
        /\ fernet[o].error = "ValueError"
        /\ Len(KeyOf(fernet[o].key)) = 31

\* C9: a call with a text argument ends with TypeError: decrypt before any
\* other step, encrypt before padding, cipher and tag.
C9_TextIsTypeError ==
    \A c \in DOMAIN calls :
        LET l == calls[c] IN
        (l.op # "idle" /\ l.arg.kind = "text") =>
            /\ l.pc \in {"d_type", "e_clock", "e_iv", "e_type", "done"}
            /\ \A i \in DOMAIN l.trace :
                   l.trace[i] \in {"d_type", "e_clock", "e_iv", "e_type"}
            /\ l.pc = "done" => l.result = Raised("TypeError")

\* decrypt of a text token ended with TypeError
C9_Witness ==
    \E c \in DOMAIN calls :
        /\ DoneDecrypt(c)
        /\ calls[c].arg.kind = "text"
        /\ calls[c].trace = << "d_type" >>
        /\ calls[c].result = Raised("TypeError")

\* what the call in slot c returns when it runs alone on the key material as
\* constructed, with its own argument, clock reading and iv
Alone(c) ==
    LET l == calls[c]
        self == Fernet_init(fernet[l.obj].key)
    IN  IF l.op = "encrypt"
        THEN encrypt_from_parts(self, l.arg, l.current_time, l.iv)
        ELSE decrypt(self, l.arg, l.has_ttl, l.ttl, l.current_time)

ResultsAsAlone == \A c \in DOMAIN calls : Done(c) => calls[c].result = Alone(c)

KeysStay ==
    \A o \in DOMAIN fernet :
        fernet[o].state = "ready" =>
            /\ fernet'[o].signing_key = fernet[o].signing_key
            /\ fernet'[o].encryption_key = fernet[o].encryption_key

\* C10: no step of a call changes the sub-keys of a constructed object, and
\* however the steps of concurrent calls interleave, each call ends as it
\* would alone with the same argument, clock reading and iv.
C10_Stateless == []ResultsAsAlone /\ [][KeysStay]_vars

\* a decrypt has ended, successfully, while an encrypt is under way
C10_Witness ==
    \E c \in DOMAIN calls : \E d \in DOMAIN calls :
        /\ DoneDecrypt(c)
        /\ calls[c].result.kind = "value"
        /\ calls[d].op = "encrypt"
        /\ calls[d].pc \in {"e_cipher", "e_parts", "e_hmac"}

=============================================================================
